---------------------------- MODULE Spec2Model ----------------------------
(***************************************************************************)
(* A model of the pathfinder's RPC glue layer (src/rpc/rpc_functions.rs):  *)
(* the process-wide EDGE_DB_DISPENSER mutex, the three extern "C" entry    *)
(* points (ffi_initialize, ffi_load_safes_binary, ffi_compute_transfer),   *)
(* load_safes_binary, compute_transfer and the two input validators.       *)
(*                                                                         *)
(* The crates the file calls into (graph::compute_flow, CallContext,       *)
(* EdgeDbDispenser, io::import_from_safes_binary, types::Address/U256) are *)
(* not part of the sources at hand; they are modelled from the written     *)
(* specification of the system.                                            *)
(*                                                                         *)
(* Strings are sequences of one-character strings.  U256 is scaled to      *)
(* ValueBits bits.                                                         *)
(***************************************************************************)
EXTENDS Integers, Sequences, FiniteSets, TLC

\* ------------------------------------------------------------------ bounds
\* Number of host threads calling into the library.
NumThreads == 2
\* Total number of FFI calls started in one behaviour.
MaxCalls == 4
\* Width of the scaled U256 (the program's is 256).
ValueBits == 4

\* --------------------------------------------------------------- constants
\* The {40} of the address pattern.
AddrHexDigits == 40

Threads == 1..NumThreads

RECURSIVE Pow2(_)
Pow2(n) == IF n = 0 THEN 1 ELSE 2 * Pow2(n - 1)

\* U256::MAX of the scaled value type.
U256_MAX == Pow2(ValueBits) - 1

\* ---------------------------------------------------------------- strings
Rep(c, n) == [i \in 1..n |-> c]

DecDigits == <<"0", "1", "2", "3", "4", "5", "6", "7", "8", "9">>
LowerHex == <<"0", "1", "2", "3", "4", "5", "6", "7", "8", "9",
              "a", "b", "c", "d", "e", "f">>
UpperHex == <<"0", "1", "2", "3", "4", "5", "6", "7", "8", "9",
              "A", "B", "C", "D", "E", "F">>

IsDecDigit(c) == \E i \in 1..10 : DecDigits[i] = c
DecVal(c) == (CHOOSE i \in 1..10 : DecDigits[i] = c) - 1
IsHexDigit(c) == \E i \in 1..16 : LowerHex[i] = c \/ UpperHex[i] = c
HexVal(c) == (CHOOSE i \in 1..16 : LowerHex[i] = c \/ UpperHex[i] = c) - 1

\* Option<T>
None == [some |-> FALSE, v |-> 0]
Some(x) == [some |-> TRUE, v |-> x]

\* U256::to_decimal / Display of an unsigned integer: its decimal numeral.
RECURSIVE to_decimal(_)
to_decimal(n) ==
    IF n < 10 THEN <<DecDigits[n + 1]>>
    ELSE Append(to_decimal(n \div 10), DecDigits[(n % 10) + 1])

\* The value of a decimal numeral (used to read a response back).
RECURSIVE DecimalValue(_)
DecimalValue(s) ==
    IF s = <<>> THEN 0
    ELSE 10 * DecimalValue(SubSeq(s, 1, Len(s) - 1)) + DecVal(s[Len(s)])

\* ------------------------------------------------------------ JSON values
JNull == [kind |-> "null", s |-> <<>>, n |-> 0, b |-> FALSE]
JStr(s) == [kind |-> "string", s |-> s, n |-> 0, b |-> FALSE]
JNum(n) == [kind |-> "number", s |-> <<>>, n |-> n, b |-> FALSE]
JBool(b) == [kind |-> "boolean", s |-> <<>>, n |-> 0, b |-> b]

\* JsonValue::as_str
as_str(j) == IF j.kind = "string" THEN Some(j.s) ELSE [some |-> FALSE, v |-> <<>>]
\* JsonValue::as_bool().unwrap_or_default()
as_bool_or_default(j) == IF j.kind = "boolean" THEN j.b ELSE FALSE
\* JsonValue::as_u64
as_u64(j) == IF j.kind = "number" /\ j.n >= 0 THEN Some(j.n) ELSE None
\* JsonValue's Display (to_string): a string prints bare, anything else as
\* its JSON text.
JsonToString(j) ==
    CASE j.kind = "string" -> j.s
      [] j.kind = "number" -> to_decimal(j.n)
      [] j.kind = "boolean" -> IF j.b THEN <<"t", "r", "u", "e">>
                                      ELSE <<"f", "a", "l", "s", "e">>
      [] OTHER -> <<"n", "u", "l", "l">>


\* ------------------------------------------------------------ Result<T,E>
NoErr == [kind |-> "", args |-> <<>>]
NoVal == [maxFlowValue |-> <<>>, final |-> FALSE, transferSteps |-> <<>>]
Ok(v) == [ok |-> TRUE, err |-> NoErr, val |-> v]
\* Err(Box::new(InputValidationError(message))): the message is kept as the
\* format string's name and its arguments.
Err(kind, args) == [ok |-> FALSE, err |-> [kind |-> kind, args |-> args], val |-> NoVal]

\* --------------------------------------------------------- value parsing
\* BigUint::from_str (radix 10): one leading '+' is dropped, an empty rest
\* or a leading '_' is an error, later '_' are skipped, every other
\* character must be a decimal digit.
StripPlus(s) ==
    IF Len(s) >= 1 /\ s[1] = "+" /\ ~(Len(s) >= 2 /\ s[2] = "+") THEN Tail(s) ELSE s

BigUintFromStr(s) ==
    LET t == StripPlus(s)
        digits == SelectSeq(t, LAMBDA c : c # "_")
    IN  IF t = <<>> THEN [ok |-> FALSE, v |-> 0, e |-> "cannot parse integer from empty string"]
        ELSE IF t[1] = "_" \/ \E i \in 1..Len(t) : ~(IsDecDigit(t[i]) \/ t[i] = "_")
             THEN [ok |-> FALSE, v |-> 0, e |-> "invalid digit found in string"]
        ELSE [ok |-> TRUE, v |-> DecimalValue(digits), e |-> ""]

\* U256::from_bigint_truncating
from_bigint_truncating(n) == n % (U256_MAX + 1)

validate_and_parse_u256(value_str) ==
    LET p == BigUintFromStr(value_str)
    IN  IF p.ok
        THEN IF p.v > U256_MAX
             THEN [ok |-> FALSE, v |-> 0,
                   err |-> [kind |-> "Value {} is too large. Maximum value is {}.",
                            args |-> <<to_decimal(p.v), to_decimal(U256_MAX)>>]]
             ELSE [ok |-> TRUE, v |-> from_bigint_truncating(p.v), err |-> NoErr]
        ELSE [ok |-> FALSE, v |-> 0,
              err |-> [kind |-> "Invalid value: {}. Couldn't parse value: {}",
                       args |-> <<value_str, <<p.e>> >>]]

\* ------------------------------------------------------- address parsing
\* Regex ^0x[0-9a-fA-F]{40}$ (no multi-line flag: $ is the end of the text).
AddressRegexMatches(s) ==
    /\ Len(s) = 2 + AddrHexDigits
    /\ s[1] = "0"
    /\ s[2] = "x"
    /\ \A i \in 3..Len(s) : IsHexDigit(s[i])

\* Address::from(&str): the 20 bytes the hex digits spell, as 40 nibbles.
AddressFromStr(s) == [i \in 1..AddrHexDigits |-> HexVal(s[i + 2])]

\* Address::to_checksummed_hex: "0x" and the 40 hex digits (the letter case
\* the checksum chooses is not modelled; lower case stands for it).
to_checksummed_hex(a) == <<"0", "x">> \o [i \in 1..Len(a) |-> LowerHex[a[i] + 1]]

NoAddress == <<>>

\* (A variant that lets every string through.)
validate_and_parse_ethereum_address_lenient(address) ==
    [ok |-> TRUE,
     v |-> IF AddressRegexMatches(address) THEN AddressFromStr(address) ELSE NoAddress,
     err |-> NoErr]

validate_and_parse_ethereum_address(address) ==
    IF AddressRegexMatches(address)
    THEN [ok |-> TRUE, v |-> AddressFromStr(address), err |-> NoErr]
    ELSE [ok |-> FALSE, v |-> NoAddress,
          err |-> [kind |-> "Invalid Ethereum address: {}", args |-> <<address>>]]

\* ----------------------------------------------- graph::compute_flow
\* An Edge is [from, to, token, capacity]; a snapshot's edges are kept in the
\* order they were loaded, which fixes the discovery order.  A path found by
\* the search is [path |-> <<edge, ...>>, amt |-> value pushed along it].
SameEdge(e, f) == e.from = f.from /\ e.to = f.to /\ e.token = f.token

RECURSIVE SumAmt(_, _)
SumAmt(paths, e) ==
    IF paths = <<>> THEN 0
    ELSE SumAmt(Tail(paths), e)
         + (IF \E i \in 1..Len(Head(paths).path) : SameEdge(Head(paths).path[i], e)
            THEN Head(paths).amt ELSE 0)

\* What is left of an edge's stored capacity after the paths found so far
\* (one-directional: no back-edges).
Residual(paths, e) == e.capacity - SumAmt(paths, e)

Visited(q, n) == \E i \in 1..Len(q) : q[i].node = n

\* Breadth-first discovery: the queue q holds [node, path from the source].
RECURSIVE Expand(_, _, _, _, _)
Expand(edges, paths, q, i, j) ==
    IF j > Len(edges) THEN q
    ELSE LET e == edges[j]
         IN  IF e.from = q[i].node /\ Residual(paths, e) > 0 /\ ~Visited(q, e.to)
             THEN Expand(edges, paths,
                         Append(q, [node |-> e.to, path |-> Append(q[i].path, e)]),
                         i, j + 1)
             ELSE Expand(edges, paths, q, i, j + 1)

RECURSIVE Bfs(_, _, _, _, _, _)
Bfs(edges, paths, sink, max_distance, q, i) ==
    IF i > Len(q) THEN <<>>
    ELSE IF q[i].node = sink THEN q[i].path
    ELSE IF max_distance.some /\ Len(q[i].path) >= max_distance.v
         THEN Bfs(edges, paths, sink, max_distance, q, i + 1)
    ELSE Bfs(edges, paths, sink, max_distance, Expand(edges, paths, q, i, 1), i + 1)

\* The shortest augmenting path within the hop bound, <<>> if there is none.
augmenting_path(edges, paths, source, sink, max_distance) ==
    Bfs(edges, paths, sink, max_distance, <<[node |-> source, path |-> <<>>]>>, 1)

RECURSIVE MinResidual(_, _)
MinResidual(paths, path) ==
    IF Len(path) = 1 THEN Residual(paths, path[1])
    ELSE LET r == Residual(paths, Head(path))
             m == MinResidual(paths, Tail(path))
         IN  IF r < m THEN r ELSE m

RECURSIVE FlowOf(_)
FlowOf(paths) == IF paths = <<>> THEN 0 ELSE Head(paths).amt + FlowOf(Tail(paths))

\* One round of the search: the paths found so far with the next augmenting
\* path added, or unchanged when the search has ended (degenerate request,
\* target reached, no path left).
FlowRound(edges, paths, source, sink, requested_flow, max_distance) ==
    IF source = sink \/ FlowOf(paths) >= requested_flow THEN paths
    ELSE LET path == augmenting_path(edges, paths, source, sink, max_distance)
         IN  IF path = <<>> THEN paths
             ELSE LET room == requested_flow - FlowOf(paths)
                      m == MinResidual(paths, path)
                  IN  Append(paths, [path |-> path, amt |-> IF m < room THEN m ELSE room])

\* The decomposition: one transfer per edge used, in discovery order, carrying
\* the total pushed over that edge (in the Edge's capacity field).
RECURSIVE MergeSteps(_, _)
MergeSteps(steps, es) ==
    IF es = <<>> THEN steps
    ELSE LET e == Head(es)
         IN  IF \E i \in 1..Len(steps) : SameEdge(steps[i], e)
             THEN MergeSteps([i \in 1..Len(steps) |->
                                 IF SameEdge(steps[i], e)
                                 THEN [steps[i] EXCEPT !.capacity = @ + e.capacity]
                                 ELSE steps[i]],
                             Tail(es))
             ELSE MergeSteps(Append(steps, e), Tail(es))

RECURSIVE PathEdges(_)
PathEdges(paths) ==
    IF paths = <<>> THEN <<>>
    ELSE [i \in 1..Len(Head(paths).path) |->
             [Head(paths).path[i] EXCEPT !.capacity = Head(paths).amt]]
         \o PathEdges(Tail(paths))

extract_transfers(paths) == MergeSteps(<<>>, PathEdges(paths))

\* max_transfers: whole paths are dropped, last found first, until the
\* decomposition fits the bound.
RECURSIVE reduce_transfers(_, _)
reduce_transfers(paths, max_transfers) ==
    IF max_transfers.some /\ Len(extract_transfers(paths)) > max_transfers.v
    THEN reduce_transfers(SubSeq(paths, 1, Len(paths) - 1), max_transfers)
    ELSE paths

\* (flow, transfers) of a finished search.
FlowResult(paths, max_transfers) ==
    LET kept == reduce_transfers(paths, max_transfers)
    IN  [flow |-> FlowOf(kept), transfers |-> extract_transfers(kept)]

\* graph::compute_flow run to completion on one set of edges.
RECURSIVE SearchAll(_, _, _, _, _, _)
SearchAll(edges, paths, source, sink, requested_flow, max_distance) ==
    LET next == FlowRound(edges, paths, source, sink, requested_flow, max_distance)
    IN  IF next = paths THEN paths
        ELSE SearchAll(edges, next, source, sink, requested_flow, max_distance)

compute_flow(source, sink, edges, requested_flow, max_distance, max_transfers) ==
    FlowResult(SearchAll(edges, <<>>, source, sink, requested_flow, max_distance),
               max_transfers)

\* ------------------------------------------------------- compute_transfer
\* A request's params are [value, from, to, iterative, max_transfers], each a
\* JSON value (JNull when the key is missing).

\* let parsed_value_param = match request.params["value"].as_str() { .. }
parsed_value_param(params) ==
    IF as_str(params.value).some
    THEN validate_and_parse_u256(as_str(params.value).v)
    ELSE [ok |-> TRUE, v |-> U256_MAX, err |-> NoErr]

from_address(params) == validate_and_parse_ethereum_address(JsonToString(params.from))
to_address(params) == validate_and_parse_ethereum_address(JsonToString(params.to))

\* let max_distances = if iterative { [Some(1), Some(2), None] } else { [None] }
max_distances(params) ==
    IF as_bool_or_default(params.iterative) THEN <<Some(1), Some(2), None>> ELSE <<None>>

\* (A variant that passes no step bound to compute_flow.)
max_transfers_dropped(params) == None

\* let max_transfers = request.params["max_transfers"].as_u64();
max_transfers(params) == as_u64(params.max_transfers)

\* (A variant that leaves the destination address unchecked.)
EarlyReturnToUnchecked(has_version, params) ==
    IF ~has_version THEN Err("No edges loaded yet", <<>>)
    ELSE IF ~parsed_value_param(params).ok
         THEN [ok |-> FALSE, err |-> parsed_value_param(params).err, val |-> NoVal]
    ELSE IF ~from_address(params).ok
         THEN [ok |-> FALSE, err |-> from_address(params).err, val |-> NoVal]
    ELSE Ok(NoVal)

\* The checks of compute_transfer before its loop, in the order the function
\* makes them: the first that fails is the error returned ("?").
EarlyReturn(has_version, params) ==
    IF ~has_version THEN Err("No edges loaded yet", <<>>)
    ELSE IF ~parsed_value_param(params).ok
         THEN [ok |-> FALSE, err |-> parsed_value_param(params).err, val |-> NoVal]
    ELSE IF ~from_address(params).ok
         THEN [ok |-> FALSE, err |-> from_address(params).err, val |-> NoVal]
    ELSE IF ~to_address(params).ok
         THEN [ok |-> FALSE, err |-> to_address(params).err, val |-> NoVal]
    ELSE Ok(NoVal)

\* (A variant that writes a step's sender and receiver the wrong way round.)
TransferStepJsonReversed(e) ==
    [from |-> to_checksummed_hex(e.to),
     to |-> to_checksummed_hex(e.from),
     token_owner |-> to_checksummed_hex(e.token),
     value |-> to_decimal(e.capacity)]

\* (A variant that writes the token owner where the receiver belongs.)
TransferStepJsonMixedUp(e) ==
    [from |-> to_checksummed_hex(e.from),
     to |-> to_checksummed_hex(e.token),
     token_owner |-> to_checksummed_hex(e.token),
     value |-> to_decimal(e.capacity)]

\* One element of transferSteps.
TransferStepJson(e) ==
    [from |-> to_checksummed_hex(e.from),
     to |-> to_checksummed_hex(e.to),
     token_owner |-> to_checksummed_hex(e.token),
     value |-> to_decimal(e.capacity)]

\* (A variant that marks every response as final.)
ResponseJsonAlwaysFinal(flow, transfers, max_distance) ==
    [maxFlowValue |-> to_decimal(flow),
     final |-> TRUE,
     transferSteps |-> [i \in 1..Len(transfers) |-> TransferStepJson(transfers[i])]]

\* The json::object! the loop body returns.
ResponseJson(flow, transfers, max_distance) ==
    [maxFlowValue |-> to_decimal(flow),
     final |-> ~max_distance.some,
     transferSteps |-> [i \in 1..Len(transfers) |-> TransferStepJson(transfers[i])]]

\* The loop body's "return Ok(..)" is unconditional: the first element of
\* max_distances is the only one tried, whatever flow it finds.
ReturnsFromLoop(flow) == TRUE

\* What the loop returns once compute_flow has ended with `paths` for the
\* attempt `tried[Len(tried)]`; a record with done = FALSE asks for the next
\* attempt.
LoopOutcome(paths, params, tried) ==
    LET r == FlowResult(paths, max_transfers(params))
    IN  IF ReturnsFromLoop(r.flow)
        THEN [done |-> TRUE, res |-> Ok(ResponseJson(r.flow, r.transfers, tried[Len(tried)]))]
        ELSE IF Len(tried) < Len(max_distances(params))
        THEN [done |-> FALSE, res |-> Ok(NoVal)]
        ELSE [done |-> TRUE,
              res |-> Err("Couldn't find a path for {} CRC between {} -> {}.",
                          <<to_decimal(parsed_value_param(params).v),
                            to_checksummed_hex(from_address(params).v),
                            to_checksummed_hex(to_address(params).v)>>)]

\* compute_transfer run without interruption on the edges `edges` (or with no
\* snapshot when has_version is FALSE).
RECURSIVE RunLoop(_, _, _)
RunLoop(edges, params, tried) ==
    LET paths == SearchAll(edges, <<>>, from_address(params).v, to_address(params).v,
                           parsed_value_param(params).v, tried[Len(tried)])
        out == LoopOutcome(paths, params, tried)
    IN  IF out.done THEN out.res
        ELSE RunLoop(edges, params, Append(tried, max_distances(params)[Len(tried) + 1]))

compute_transfer(has_version, edges, params) ==
    IF ~EarlyReturn(has_version, params).ok THEN EarlyReturn(has_version, params)
    ELSE RunLoop(edges, params, <<max_distances(params)[1]>>)

\* compute_transfer(..).unwrap_or(json::object! {})
EmptyObject == NoVal
unwrap_or_empty(res) == IF res.ok THEN res.val ELSE EmptyObject

\* ------------------------------------------------------------- the inputs
\* Accounts (also token owners).
AcctA == Rep(10, AddrHexDigits)
AcctB == Rep(11, AddrHexDigits)
AcctC == Rep(12, AddrHexDigits)

Edge(f, t, tok, cap) == [from |-> f, to |-> t, token |-> tok, capacity |-> cap]

\* io::import_from_safes_binary on the files the host may name: the edges of
\* a readable file, or an error.
Files ==
    << \* A -> B only
       [ok |-> TRUE, edges |-> <<Edge(AcctA, AcctB, AcctA, 5)>>],
       \* A -> B -> C
       [ok |-> TRUE, edges |-> <<Edge(AcctA, AcctB, AcctA, 3), Edge(AcctB, AcctC, AcctA, 3)>>],
       \* a file that cannot be read or decoded
       [ok |-> FALSE, edges |-> <<>>],
       \* parallel tokens, a direct edge and two-hop routes
       [ok |-> TRUE, edges |-> <<Edge(AcctA, AcctB, AcctA, 2), Edge(AcctA, AcctB, AcctB, 1),
                                 Edge(AcctB, AcctC, AcctA, 2), Edge(AcctB, AcctC, AcctB, 2),
                                 Edge(AcctA, AcctC, AcctA, 1)>>],
       \* a readable file with no edges
       [ok |-> TRUE, edges |-> <<>>] >>

import_from_safes_binary(file) == Files[file]

Str(a) == to_checksummed_hex(a)
UpperStr(a) == <<"0", "x">> \o [i \in 1..Len(a) |-> UpperHex[a[i] + 1]]

Params(v, f, t, it, mt) ==
    [value |-> v, from |-> f, to |-> t, iterative |-> it, max_transfers |-> mt]

\* The requests a host may send: [json_ok, params].  json_ok = FALSE is a
\* request text that is not JSON.
Requests ==
    << [json_ok |-> TRUE, params |-> Params(JStr(<<"2">>), JStr(Str(AcctA)), JStr(Str(AcctC)), JNull, JNull)],
       [json_ok |-> TRUE, params |-> Params(JStr(<<"2">>), JStr(<<"0", "x">> \o Rep("Z", AddrHexDigits)), JStr(Str(AcctC)), JNull, JNull)],
       [json_ok |-> TRUE, params |-> Params(JNull, JStr(Str(AcctA)), JStr(Str(AcctC)), JBool(TRUE), JNull)],
       [json_ok |-> TRUE, params |-> Params(JNull, JStr(Str(AcctA)), JStr(Str(AcctC)), JNull, JNull)],
       [json_ok |-> TRUE, params |-> Params(JStr(<<"1", "0", "0">>), JStr(Str(AcctA)), JStr(Str(AcctC)), JNull, JNull)],
       [json_ok |-> TRUE, params |-> Params(JStr(<<"x", "1">>), JStr(Str(AcctA)), JStr(Str(AcctC)), JNull, JNull)],
       [json_ok |-> TRUE, params |-> Params(JNull, JStr(Str(AcctA)), JStr(Str(AcctC)), JNull, JNum(2))],
       [json_ok |-> TRUE, params |-> Params(JStr(<<"9">>), JStr(UpperStr(AcctA)), JStr(Str(AcctB)), JNull, JNull)],
       [json_ok |-> TRUE, params |-> Params(JStr(<<"2">>), JStr(Str(AcctC)), JStr(Str(AcctA)), JNull, JNull)],
       [json_ok |-> TRUE, params |-> Params(JStr(<<"2">>), JStr(Str(AcctA)), JStr(Str(AcctA)), JNull, JNull)],
       [json_ok |-> TRUE, params |-> Params(JStr(<<"2">>), JStr(Str(AcctA)), JNull, JNull, JNull)],
       [json_ok |-> TRUE, params |-> Params(JStr(<<"1">>), JStr(Str(AcctA)), JStr(Str(AcctC)), JBool(TRUE), JNull)],
       [json_ok |-> TRUE, params |-> Params(JNum(3), JStr(Str(AcctA)), JStr(Str(AcctC)), JNull, JNull)],
       [json_ok |-> FALSE, params |-> Params(JNull, JNull, JNull, JNull, JNull)],
       [json_ok |-> TRUE, params |-> Params(JStr(<<"4">>), JStr(Str(AcctA)), JStr(Str(AcctC)), JNull, JNum(3))],
       [json_ok |-> TRUE, params |-> Params(JNull, JStr(Str(AcctA)), JStr(Str(AcctC)), JNull, JNum(0))],
       [json_ok |-> TRUE, params |-> Params(JStr(<<"+", "2">>), JStr(Str(AcctA)), JStr(Str(AcctC)), JNull, JNull)],
       [json_ok |-> TRUE, params |-> Params(JStr(<<"1", "_", "0">>), JStr(Str(AcctA)), JStr(Str(AcctC)), JNull, JNull)],
       [json_ok |-> TRUE, params |-> Params(JStr(<<>>), JStr(Str(AcctA)), JStr(Str(AcctC)), JNull, JNull)],
       [json_ok |-> TRUE, params |-> Params(JStr(<<"2">>), JStr(Append(Str(AcctA), "a")), JStr(Str(AcctC)), JNull, JNull)],
       [json_ok |-> TRUE, params |-> Params(JStr(<<"2">>), JStr(Str(AcctA)), JStr(SubSeq(Str(AcctC), 1, AddrHexDigits + 1)), JNull, JNull)],
       [json_ok |-> TRUE, params |-> Params(JStr(<<"x", "1">>), JNull, JStr(Str(AcctC)), JNull, JNull)] >>

AllFiles == 1..Len(Files)
AllRequests == 1..Len(Requests)
\* What the threads of the concurrent specification send.
ConcFiles == {2, 3, 4}
ConcRequests == {1, 2}

\* ---------------------------------------------------------------- the state
VARIABLES
    EDGE_DB_DISPENSER,  \* the global Option<Arc<EdgeDbDispenser>>: 0 is None
    dispensers,         \* every EdgeDbDispenser created: its current version, 0 if none
    versions,           \* every snapshot installed: [edges, file, prev, inits]
    lock,               \* the thread holding the global mutex, 0 if free
    poisoned,           \* a thread panicked while holding the mutex
    aborted,            \* a panic in an extern "C" function ended the process
    th,                 \* each thread's call: position, arguments, locals, results
    calls               \* FFI calls started so far

vars == <<EDGE_DB_DISPENSER, dispensers, versions, lock, poisoned, aborted, th, calls>>

NoRet == [n |-> 0, json |-> EmptyObject]

Idle == [pc |-> "idle", fn |-> "", file |-> 0, req |-> 0, disp |-> 0, version |-> 0,
         paths |-> <<>>, tried |-> <<>>, res |-> Ok(NoVal), ret |-> NoRet]

Init ==
    /\ EDGE_DB_DISPENSER = 0
    /\ dispensers = <<>>
    /\ versions = <<>>
    /\ lock = 0
    /\ poisoned = FALSE
    /\ aborted = FALSE
    /\ th = [t \in Threads |-> Idle]
    /\ calls = 0

\* -------------------------------------------------------------- the steps
Params_(t) == Requests[th[t].req].params

\* A panic (an unwrap() of None or Err) inside an extern "C" function.  The
\* thread's call never returns; a MutexGuard alive at the panic poisons the
\* mutex as it is dropped.  Whether the process survives depends on the
\* build (abort at the FFI boundary, or unwinding into the host).
Panic(t, rec, holding) ==
    /\ th' = [th EXCEPT ![t] = [rec EXCEPT !.pc = "panicked"]]
    /\ poisoned' = (poisoned \/ holding)
    /\ lock' = IF holding THEN 0 ELSE lock
    /\ aborted' \in BOOLEAN

CanCall(t) == ~aborted /\ th[t].pc = "idle" /\ calls < MaxCalls

\* ffi_initialize, line 47: Arc::new(EdgeDbDispenser::new()).
CallInitialize(t) ==
    /\ CanCall(t)
    /\ calls' = calls + 1
    /\ dispensers' = Append(dispensers, 0)
    /\ th' = [th EXCEPT ![t] = [Idle EXCEPT !.pc = "lock", !.fn = "init",
                                            !.disp = Len(dispensers) + 1]]
    /\ UNCHANGED <<EDGE_DB_DISPENSER, versions, lock, poisoned, aborted>>

\* ffi_load_safes_binary(file) is entered.
CallLoad(t, f) ==
    /\ CanCall(t)
    /\ calls' = calls + 1
    /\ th' = [th EXCEPT ![t] = [Idle EXCEPT !.pc = "lock", !.fn = "load", !.file = f]]
    /\ UNCHANGED <<EDGE_DB_DISPENSER, dispensers, versions, lock, poisoned, aborted>>

\* ffi_compute_transfer(request_json) is entered and parses the request:
\* json_parse(..).unwrap() panics on a text that is not JSON.
CallCompute(t, r) ==
    /\ CanCall(t)
    /\ calls' = calls + 1
    /\ IF Requests[r].json_ok
       THEN /\ th' = [th EXCEPT ![t] = [Idle EXCEPT !.pc = "lock", !.fn = "compute", !.req = r]]
            /\ UNCHANGED <<lock, poisoned, aborted>>
       ELSE Panic(t, [Idle EXCEPT !.fn = "compute", !.req = r], FALSE)
    /\ UNCHANGED <<EDGE_DB_DISPENSER, dispensers, versions>>

\* EDGE_DB_DISPENSER.lock().unwrap(): waits for the mutex; panics if it is
\* poisoned.
AcquireLock(t) ==
    /\ ~aborted
    /\ th[t].pc = "lock"
    /\ lock = 0
    /\ IF poisoned
       THEN Panic(t, th[t], FALSE)
       ELSE /\ lock' = t
            /\ th' = [th EXCEPT ![t].pc = "locked"]
            /\ UNCHANGED <<poisoned, aborted>>
    /\ UNCHANGED <<EDGE_DB_DISPENSER, dispensers, versions, calls>>

\* (A variant in which the guard is bound to a local and lives to the end of
\* the function.)
GuardKept(t) == t

\* The MutexGuard is a temporary of the statement that locks: it is dropped,
\* and the mutex released, when that statement ends.
GuardAfterStatement(t) == 0

\* ffi_initialize: *guard = Some(edge_db_dispenser); and return.
StoreDispenser(t) ==
    /\ ~aborted
    /\ th[t].pc = "locked"
    /\ th[t].fn = "init"
    /\ lock = t
    /\ EDGE_DB_DISPENSER' = th[t].disp
    /\ lock' = GuardAfterStatement(t)
    /\ th' = [th EXCEPT ![t].pc = "idle"]
    /\ UNCHANGED <<dispensers, versions, poisoned, aborted, calls>>

\* (A variant that takes the dispenser out of the global Option instead of
\* cloning it.)
CloneDispenserTaking(t) ==
    /\ ~aborted
    /\ th[t].pc = "locked"
    /\ th[t].fn \in {"load", "compute"}
    /\ lock = t
    /\ IF EDGE_DB_DISPENSER = 0
       THEN Panic(t, th[t], TRUE) /\ UNCHANGED EDGE_DB_DISPENSER
       ELSE /\ th' = [th EXCEPT ![t].pc = "ctx", ![t].disp = EDGE_DB_DISPENSER]
            /\ EDGE_DB_DISPENSER' = 0
            /\ lock' = GuardAfterStatement(t)
            /\ UNCHANGED <<poisoned, aborted>>
    /\ UNCHANGED <<dispensers, versions, calls>>

\* let dispenser = guard.as_ref().unwrap().clone(): panics, holding the
\* guard, when ffi_initialize has not stored a dispenser.
CloneDispenser(t) ==
    /\ ~aborted
    /\ th[t].pc = "locked"
    /\ th[t].fn \in {"load", "compute"}
    /\ lock = t
    /\ IF EDGE_DB_DISPENSER = 0
       THEN Panic(t, th[t], TRUE)
       ELSE /\ th' = [th EXCEPT ![t].pc = "ctx", ![t].disp = EDGE_DB_DISPENSER]
            /\ lock' = GuardAfterStatement(t)
            /\ UNCHANGED <<poisoned, aborted>>
    /\ UNCHANGED <<EDGE_DB_DISPENSER, dispensers, versions, calls>>

\* CallContext::new(&dispenser): pins the dispenser's current version (none
\* when nothing has been installed).
NewCallContext(t) ==
    /\ ~aborted
    /\ th[t].pc = "ctx"
    /\ th' = [th EXCEPT ![t].version = dispensers[th[t].disp],
                        ![t].pc = IF th[t].fn = "load" THEN "import" ELSE "validate"]
    /\ UNCHANGED <<EDGE_DB_DISPENSER, dispensers, versions, lock, poisoned, aborted, calls>>

\* (A variant that adds the imported capacities to those of the version the
\* call context pinned.)
merged_edges(t) ==
    MergeSteps(<<>>, import_from_safes_binary(th[t].file).edges
                     \o (IF th[t].version # 0 THEN versions[th[t].version].edges ELSE <<>>))

\* let updated_edges = import_from_safes_binary(file)?.edges().clone();
updated_edges(t) == import_from_safes_binary(th[t].file).edges

\* EdgeDbDispenser::update(edges): a new version becomes the dispenser's
\* current one.  (file and prev record where the version came from, inits
\* how many calls of ffi_initialize had been made when it was installed.)
Update(t, edges) ==
    /\ versions' = Append(versions, [edges |-> edges, file |-> th[t].file,
                                     prev |-> dispensers[th[t].disp],
                                     inits |-> Len(dispensers)])
    /\ dispensers' = [dispensers EXCEPT ![th[t].disp] = Len(versions) + 1]

\* (A variant that installs whatever the import left, also when it failed.)
LoadSafesBinaryAlwaysUpdates(t) ==
    /\ ~aborted
    /\ th[t].pc = "import"
    /\ Update(t, updated_edges(t))
    /\ th' = [th EXCEPT ![t].pc = "idle",
                        ![t].ret = [NoRet EXCEPT !.n = Len(updated_edges(t))]]
    /\ UNCHANGED <<EDGE_DB_DISPENSER, lock, poisoned, aborted, calls>>

\* load_safes_binary, when the import has ended, and the return of
\* ffi_load_safes_binary: load_safes_binary(..).unwrap_or(0).
LoadSafesBinary(t) ==
    /\ ~aborted
    /\ th[t].pc = "import"
    /\ IF import_from_safes_binary(th[t].file).ok
       THEN /\ Update(t, updated_edges(t))
            /\ th' = [th EXCEPT ![t].pc = "idle",
                                ![t].ret = [NoRet EXCEPT !.n = Len(updated_edges(t))]]
       ELSE /\ th' = [th EXCEPT ![t].pc = "idle", ![t].ret = NoRet]
            /\ UNCHANGED <<dispensers, versions>>
    /\ UNCHANGED <<EDGE_DB_DISPENSER, lock, poisoned, aborted, calls>>

\* (A variant that reads the dispenser's current version at each use instead
\* of the pinned one.)
EdgesOfCurrent(t) == versions[dispensers[th[t].disp]].edges

\* let edges = &call_context.version.as_ref().unwrap().edges;
EdgesOf(t) == versions[th[t].version].edges

\* compute_transfer up to its loop (lines 90-113); an early error is returned
\* through ffi_compute_transfer as "{}".
ComputeValidate(t) ==
    /\ ~aborted
    /\ th[t].pc = "validate"
    /\ LET early == EarlyReturn(th[t].version # 0, Params_(t))
       IN  IF early.ok
           THEN th' = [th EXCEPT ![t].pc = "flow", ![t].paths = <<>>,
                                 ![t].tried = <<max_distances(Params_(t))[1]>>]
           ELSE th' = [th EXCEPT ![t].pc = "idle", ![t].res = early,
                                 ![t].ret = [NoRet EXCEPT !.json = unwrap_or_empty(early)]]
    /\ UNCHANGED <<EDGE_DB_DISPENSER, dispensers, versions, lock, poisoned, aborted, calls>>

\* graph::compute_flow, one round of its search per step, reading the pinned
\* edges; when the search has ended, the loop body's return and the return of
\* ffi_compute_transfer.
ComputeFlowStep(t) ==
    /\ ~aborted
    /\ th[t].pc = "flow"
    /\ LET p == Params_(t)
           next == FlowRound(EdgesOf(t), th[t].paths, from_address(p).v, to_address(p).v,
                             parsed_value_param(p).v, th[t].tried[Len(th[t].tried)])
           out == LoopOutcome(th[t].paths, p, th[t].tried)
       IN  IF next # th[t].paths
           THEN th' = [th EXCEPT ![t].paths = next]
           ELSE IF out.done
           THEN th' = [th EXCEPT ![t].pc = "idle", ![t].paths = <<>>, ![t].res = out.res,
                                 ![t].ret = [NoRet EXCEPT !.json = unwrap_or_empty(out.res)]]
           ELSE th' = [th EXCEPT ![t].paths = <<>>,
                                 ![t].tried = Append(@, max_distances(p)[Len(@) + 1])]
    /\ UNCHANGED <<EDGE_DB_DISPENSER, dispensers, versions, lock, poisoned, aborted, calls>>

Step(t) ==
    \/ AcquireLock(t)
    \/ StoreDispenser(t)
    \/ CloneDispenser(t)
    \/ NewCallContext(t)
    \/ LoadSafesBinary(t)
    \/ ComputeValidate(t)
    \/ ComputeFlowStep(t)

\* Host threads calling the three entry points concurrently.
Next ==
    \E t \in Threads :
        \/ CallInitialize(t)
        \/ \E f \in ConcFiles : CallLoad(t, f)
        \/ \E r \in ConcRequests : CallCompute(t, r)
        \/ Step(t)

Spec == Init /\ [][Next]_vars

\* One host thread making its calls one after the other, with every file and
\* every request.
SeqNext ==
    \/ CallInitialize(1)
    \/ \E f \in AllFiles : CallLoad(1, f)
    \/ \E r \in AllRequests : CallCompute(1, r)
    \/ Step(1)

SeqSpec == Init /\ [][SeqNext]_vars

\* ===================================================================
\* Properties
\* ===================================================================
\* A call of ffi_compute_transfer by t has returned.
Returned(t) == th[t].fn = "compute" /\ th[t].pc = "idle"
\* The call reached compute_transfer's loop (its early checks passed).
RanFlow(t) == Returned(t) /\ th[t].tried # <<>>
PinnedEdges(t) == versions[th[t].version].edges

NoGraphMsg == "No edges loaded yet"
NoRouteMsg == "Couldn't find a path for {} CRC between {} -> {}."

\* ---- C1 --------------------------------------------------------------
\* C1: while no graph load has succeeded, every flow query (a request that is
\* JSON) ends by compute_transfer returning the "No edges loaded yet" error:
\* it neither returns a flow result nor ends in any other way (such as a
\* panic).
C1_QueryBeforeLoadFailsNoGraph ==
    \A t \in Threads :
        ( /\ th[t].fn = "compute"
          /\ Requests[th[t].req].json_ok
          /\ th[t].pc \in {"idle", "panicked"}
          /\ versions = <<>> )
        => ( /\ th[t].pc = "idle"
             /\ ~th[t].res.ok
             /\ th[t].res.err.kind = NoGraphMsg )

\* ---- C2 --------------------------------------------------------------
\* C2: snapshot isolation.  Whatever loads were interleaved with it, a query
\* that has returned carries exactly the result compute_transfer gives on the
\* edges of the version its call context pinned when it was created.
C2_SnapshotIsolation ==
    \A t \in Threads :
        (Returned(t) /\ th[t].version # 0)
        => th[t].res = compute_transfer(TRUE, PinnedEdges(t), Params_(t))

\* A query returned a result after its dispenser had moved on to another
\* version, and the newer version would have given a different result.
C2_Witness ==
    \E t \in Threads :
        /\ RanFlow(t)
        /\ th[t].res.ok
        /\ dispensers[th[t].disp] # th[t].version
        /\ th[t].res # compute_transfer(TRUE, versions[dispensers[th[t].disp]].edges,
                                        Params_(t))

\* ---- C3 --------------------------------------------------------------
\* The flow compute_flow finds for t's query on its pinned edges under the
\* hop bound its last attempt used.
FlowFound(t) ==
    compute_flow(from_address(Params_(t)).v, to_address(Params_(t)).v, PinnedEdges(t),
                 parsed_value_param(Params_(t)).v, th[t].tried[Len(th[t].tried)],
                 max_transfers(Params_(t))).flow

\* C3: a query for which no value is routable within the hop bound used fails
\* with the no-route error carrying the requested value, source and
\* destination; it is not answered with a success.
C3_ZeroFlowIsNoRouteError ==
    \A t \in Threads :
        (RanFlow(t) /\ FlowFound(t) = 0)
        => ( /\ ~th[t].res.ok
             /\ th[t].res.err.kind = NoRouteMsg
             /\ th[t].res.err.args =
                    <<to_decimal(parsed_value_param(Params_(t)).v),
                      to_checksummed_hex(from_address(Params_(t)).v),
                      to_checksummed_hex(to_address(Params_(t)).v)>> )

\* ---- C4 --------------------------------------------------------------
\* The hop bounds the claim has an iterative query try, and the index of the
\* first that routes some value on the pinned edges (the last if none does).
ClaimedBounds(t) ==
    IF as_bool_or_default(Params_(t).iterative) THEN <<Some(1), Some(2), None>> ELSE <<None>>

FlowUnder(t, bound) ==
    compute_flow(from_address(Params_(t)).v, to_address(Params_(t)).v, PinnedEdges(t),
                 parsed_value_param(Params_(t)).v, bound, max_transfers(Params_(t)))

FirstSuccess(t) ==
    IF \E k \in 1..Len(ClaimedBounds(t)) : FlowUnder(t, ClaimedBounds(t)[k]).flow > 0
    THEN CHOOSE k \in 1..Len(ClaimedBounds(t)) :
             /\ FlowUnder(t, ClaimedBounds(t)[k]).flow > 0
             /\ \A j \in 1..(k - 1) : FlowUnder(t, ClaimedBounds(t)[j]).flow = 0
    ELSE Len(ClaimedBounds(t))

\* C4: an iterative query tries the hop bounds 1, 2, unbounded in that order
\* up to the first attempt that succeeds and returns that attempt's result; a
\* query that is not iterative makes exactly one unbounded attempt.
C4_IterativeTriesBoundsInOrder ==
    \A t \in Threads :
        RanFlow(t)
        => ( /\ th[t].tried = SubSeq(ClaimedBounds(t), 1, FirstSuccess(t))
             /\ th[t].res.ok =>
                    th[t].res.val =
                        ResponseJson(FlowUnder(t, ClaimedBounds(t)[FirstSuccess(t)]).flow,
                                     FlowUnder(t, ClaimedBounds(t)[FirstSuccess(t)]).transfers,
                                     ClaimedBounds(t)[FirstSuccess(t)]) )

\* ---- C5 --------------------------------------------------------------
\* Malformed inputs, stated from the boundary contract and not from the
\* validators: an address string that is not "0x" and 40 hex digits; a value
\* string that is empty, holds a character that is no decimal digit, '+' or
\* '_', or is a plain decimal numeral above the maximum.
HexChars == {LowerHex[i] : i \in 1..16} \cup {UpperHex[i] : i \in 1..16}
DecChars == {DecDigits[i] : i \in 1..10}

WellFormedAddress(s) ==
    /\ Len(s) = 42
    /\ SubSeq(s, 1, 2) = <<"0", "x">>
    /\ \A i \in 3..42 : s[i] \in HexChars

ValueFormatBad(s) == s = <<>> \/ \E i \in 1..Len(s) : s[i] \notin DecChars \cup {"+", "_"}
ValueRangeBad(s) ==
    /\ s # <<>>
    /\ \A i \in 1..Len(s) : s[i] \in DecChars
    /\ DecimalValue(s) > U256_MAX

ValueMalformed(p) == p.value.kind = "string" /\ (ValueFormatBad(p.value.s) \/ ValueRangeBad(p.value.s))
FromMalformed(p) == ~WellFormedAddress(JsonToString(p.from))
ToMalformed(p) == ~WellFormedAddress(JsonToString(p.to))
MalformedQuery(p) == ValueMalformed(p) \/ FromMalformed(p) \/ ToMalformed(p)

\* The validation error that corresponds to a malformed query: that of its
\* value, else of its source, else of its destination.
IsExpectedValidationError(p, err) ==
    IF ValueMalformed(p)
    THEN /\ ValueFormatBad(p.value.s) => err.kind = "Invalid value: {}. Couldn't parse value: {}"
         /\ ValueRangeBad(p.value.s) => err.kind = "Value {} is too large. Maximum value is {}."
         /\ err.args[1] = p.value.s
    ELSE IF FromMalformed(p)
    THEN err = [kind |-> "Invalid Ethereum address: {}", args |-> <<JsonToString(p.from)>>]
    ELSE err = [kind |-> "Invalid Ethereum address: {}", args |-> <<JsonToString(p.to)>>]

FailureClass(t) ==
    CASE th[t].version # 0 /\ MalformedQuery(Params_(t)) -> "malformed input"
      [] th[t].version = 0 /\ ~MalformedQuery(Params_(t)) -> "not ready"
      [] th[t].version # 0 /\ RanFlow(t) /\ FlowFound(t) = 0 -> "no route"
      [] OTHER -> ""

\* C6: two failed queries of different classes (malformed input, no route,
\* no graph loaded) never give their callers the same outcome, neither as
\* compute_transfer's result nor as ffi_compute_transfer's return value.
C6_FailureClassesDistinguishable ==
    \A t1, t2 \in Threads :
        ( /\ Returned(t1) /\ Returned(t2)
          /\ FailureClass(t1) # "" /\ FailureClass(t2) # ""
          /\ FailureClass(t1) # FailureClass(t2) )
        => ( /\ th[t1].res # th[t2].res
             /\ th[t1].ret.json # th[t2].ret.json )

\* ---- C7 --------------------------------------------------------------
\* C7: the global mutex is held only inside the statement that locks it: no
\* thread holds it while it creates its call context, imports a file,
\* validates a query or runs the flow search, so whoever holds it is one step
\* from releasing it.
C7_LockNotHeldWhileWorking ==
    \A t \in Threads :
        /\ th[t].pc \in {"ctx", "import", "validate", "flow", "idle", "lock"} => lock # t
        /\ lock = t => th[t].pc = "locked"

\* One thread holds the mutex while another is in the middle of a flow search
\* and a third party's import could be running.
C7_Witness ==
    \E t1, t2 \in Threads :
        /\ th[t1].pc = "flow"
        /\ th[t1].paths # <<>>
        /\ lock = t2
        /\ th[t2].pc = "locked"

\* ---- C8 --------------------------------------------------------------
JsonRequests == {r \in AllRequests : Requests[r].json_ok}

\* C8: idempotent replace.  When a load installs the content of a file on a
\* dispenser whose current version was installed from the same content, every
\* query gets the same result on the new version as on the one before.
C8_IdempotentReplace ==
    \A v \in 1..Len(versions) :
        ( /\ versions[v].prev # 0
          /\ Files[versions[versions[v].prev].file] = Files[versions[v].file] )
        => \A r \in JsonRequests :
               compute_transfer(TRUE, versions[v].edges, Requests[r].params)
               = compute_transfer(TRUE, versions[versions[v].prev].edges, Requests[r].params)

\* The same non-empty graph was loaded twice in a row and a query then
\* returned a flow from the second version.
C8_Witness ==
    \E t \in Threads :
        /\ RanFlow(t)
        /\ th[t].res.ok
        /\ th[t].res.val.transferSteps # <<>>
        /\ versions[th[t].version].prev # 0
        /\ versions[versions[th[t].version].prev].file = versions[th[t].version].file

\* ---- C9 --------------------------------------------------------------
\* The largest value any plan can move from s to d over `edges` (capacity and
\* conservation respected): the capacity of a smallest cut.
NodesOf(edges) == {edges[i].from : i \in 1..Len(edges)} \cup {edges[i].to : i \in 1..Len(edges)}

RECURSIVE CutCapacity(_, _)
CutCapacity(edges, S) ==
    IF edges = <<>> THEN 0
    ELSE CutCapacity(Tail(edges), S)
         + (IF Head(edges).from \in S /\ Head(edges).to \notin S THEN Head(edges).capacity ELSE 0)

FeasibleValue(edges, s, d) ==
    IF s = d THEN 0
    ELSE LET caps == {CutCapacity(edges, S \cup {s}) : S \in SUBSET (NodesOf(edges) \ {s, d})}
         IN  CHOOSE m \in caps : \A c \in caps : m <= c

\* C9: target cap.  The maxFlowValue of every answered query is at most the
\* requested target, and is the target whenever the pinned snapshot admits a
\* plan of that size.
C9_TargetCap ==
    \A t \in Threads :
        (RanFlow(t) /\ th[t].res.ok)
        => LET target == parsed_value_param(Params_(t)).v
               got == DecimalValue(th[t].res.val.maxFlowValue)
           IN  /\ got <= target
               /\ FeasibleValue(PinnedEdges(t), from_address(Params_(t)).v,
                                to_address(Params_(t)).v) >= target
                  => got = target

\* ---- C10 -------------------------------------------------------------
RECURSIVE StepSum(_, _, _)
StepSum(steps, a, inbound) ==
    IF steps = <<>> THEN 0
    ELSE StepSum(Tail(steps), a, inbound)
         + (IF (IF inbound THEN Head(steps).to ELSE Head(steps).from) = a
            THEN DecimalValue(Head(steps).value) ELSE 0)

StepAccounts(steps) ==
    {steps[i].from : i \in 1..Len(steps)} \cup {steps[i].to : i \in 1..Len(steps)}

\* C10: value conservation.  In every successful response, at every account
\* other than the query's source and destination, the values of the steps
\* into the account and of the steps out of it add up to the same.
C10_ValueConservation ==
    \A t \in Threads :
        (RanFlow(t) /\ th[t].res.ok)
        => \A a \in StepAccounts(th[t].res.val.transferSteps)
                    \ {to_checksummed_hex(from_address(Params_(t)).v),
                       to_checksummed_hex(to_address(Params_(t)).v)} :
               StepSum(th[t].res.val.transferSteps, a, TRUE)
               = StepSum(th[t].res.val.transferSteps, a, FALSE)

\* A response routes value through an intermediate account over more than
\* one token.
C10_Witness ==
    \E t \in Threads :
        /\ RanFlow(t)
        /\ th[t].res.ok
        /\ \E i, j \in 1..Len(th[t].res.val.transferSteps) :
               LET st == th[t].res.val.transferSteps
               IN  /\ st[i].to = st[j].to
                   /\ st[i].token_owner # st[j].token_owner
                   /\ st[i].to # to_checksummed_hex(to_address(Params_(t)).v)

\* ---- C11 -------------------------------------------------------------
\* The edges of a snapshot that a transfer step of a response names.
EdgesNamedBy(edges, st) ==
    {i \in 1..Len(edges) :
        /\ to_checksummed_hex(edges[i].from) = st.from
        /\ to_checksummed_hex(edges[i].to) = st.to
        /\ to_checksummed_hex(edges[i].token) = st.token_owner}

\* C11: capacity respect.  Every transfer step of a successful response has a
\* value greater than zero, names an edge (from, to, token) of the snapshot
\* the query was pinned to, and its value is not greater than that edge's
\* capacity.
C11_CapacityRespect ==
    \A t \in Threads :
        (RanFlow(t) /\ th[t].res.ok)
        => \A i \in 1..Len(th[t].res.val.transferSteps) :
               LET st == th[t].res.val.transferSteps[i]
               IN  /\ DecimalValue(st.value) > 0
                   /\ EdgesNamedBy(PinnedEdges(t), st) # {}
                   /\ \A j \in EdgesNamedBy(PinnedEdges(t), st) :
                          DecimalValue(st.value) <= PinnedEdges(t)[j].capacity

\* A response uses one edge of its snapshot to the full and another one only
\* in part.
C11_Witness ==
    \E t \in Threads :
        /\ RanFlow(t)
        /\ th[t].res.ok
        /\ \E i, k \in 1..Len(th[t].res.val.transferSteps) :
               LET st == th[t].res.val.transferSteps
               IN  /\ \E j \in EdgesNamedBy(PinnedEdges(t), st[i]) :
                          DecimalValue(st[i].value) = PinnedEdges(t)[j].capacity
                   /\ \E j \in EdgesNamedBy(PinnedEdges(t), st[k]) :
                          DecimalValue(st[k].value) < PinnedEdges(t)[j].capacity

\* ---- C12 -------------------------------------------------------------
\* The query carries a step bound: max_transfers is a non-negative integer.
CarriesStepBound(p) == p.max_transfers.kind = "number" /\ p.max_transfers.n >= 0

\* The value the steps deliver to the account a (as it is written in the
\* response).
Delivered(steps, a) == StepSum(steps, a, TRUE) - StepSum(steps, a, FALSE)

\* C12: when the query carries a step bound, a successful response has no
\* more transfer steps than the bound, and its maxFlowValue is the value its
\* transfer steps deliver to the destination.
C12_StepBoundAndDeliveredValue ==
    \A t \in Threads :
        (RanFlow(t) /\ th[t].res.ok /\ CarriesStepBound(Params_(t)))
        => /\ Len(th[t].res.val.transferSteps) <= Params_(t).max_transfers.n
           /\ DecimalValue(th[t].res.val.maxFlowValue)
              = Delivered(th[t].res.val.transferSteps,
                          to_checksummed_hex(to_address(Params_(t)).v))

\* A response whose plan was cut down to the step bound: without the bound
\* the same query on the same snapshot has more steps than the bound, and
\* the response still delivers something.
C12_Witness ==
    \E t \in Threads :
        /\ RanFlow(t)
        /\ th[t].res.ok
        /\ CarriesStepBound(Params_(t))
        /\ th[t].res.val.transferSteps # <<>>
        /\ Len(compute_flow(from_address(Params_(t)).v, to_address(Params_(t)).v,
                            PinnedEdges(t), parsed_value_param(Params_(t)).v,
                            th[t].tried[Len(th[t].tried)], None).transfers)
           > Params_(t).max_transfers.n

\* ---- C13 -------------------------------------------------------------
\* An unsigned decimal numeral without separators: one decimal digit or more
\* and nothing else.
PlainNumeral(s) == s # <<>> /\ \A i \in 1..Len(s) : s[i] \in DecChars

ValueRangeMsg == "Value {} is too large. Maximum value is {}."
ValueFormatMsg == "Invalid value: {}. Couldn't parse value: {}"

\* C13: value string parsing.  Whenever compute_transfer has parsed the value
\* string of a query (a snapshot was pinned), validate_and_parse_u256
\* succeeded exactly if the string is a plain numeral of at most the maximum
\* value, and then gave that value; a plain numeral above the maximum was
\* rejected with the value-range error, every other string with the
\* value-format error, and the query returned that error.
C13_ValueParsing ==
    \A t \in Threads :
        (Returned(t) /\ th[t].version # 0 /\ Params_(t).value.kind = "string")
        => LET s == Params_(t).value.s
               r == validate_and_parse_u256(s)
           IN  IF PlainNumeral(s)
               THEN IF DecimalValue(s) <= U256_MAX
                    THEN r.ok /\ r.v = DecimalValue(s)
                    ELSE /\ ~r.ok
                         /\ r.err.kind = ValueRangeMsg
                         /\ ~th[t].res.ok
                         /\ th[t].res.err = r.err
               ELSE /\ ~r.ok
                    /\ r.err.kind = ValueFormatMsg
                    /\ ~th[t].res.ok
                    /\ th[t].res.err = r.err

\* ---- C14 -------------------------------------------------------------
AddressFormatMsg == "Invalid Ethereum address: {}"

\* The address strings of a query, as compute_transfer reads them (a missing
\* parameter reads as "null").
FromText(p) == JsonToString(p.from)
ToText(p) == JsonToString(p.to)

\* C14: address validation.  validate_and_parse_ethereum_address accepts the
\* 'from' and the 'to' string of a query exactly if the string is "0x" and 40
\* hexadecimal digits; a query with any other 'from' or 'to' (a missing one
\* too) is rejected with the address-format error and no flow computation
\* runs for it.
C14_AddressValidation ==
    \A t \in Threads :
        Returned(t)
        => LET p == Params_(t)
           IN  /\ validate_and_parse_ethereum_address(FromText(p)).ok
                  <=> WellFormedAddress(FromText(p))
               /\ validate_and_parse_ethereum_address(ToText(p)).ok
                  <=> WellFormedAddress(ToText(p))
               /\ (FromMalformed(p) \/ ToMalformed(p))
                  => /\ ~th[t].res.ok
                     /\ th[t].res.err.kind = AddressFormatMsg
                     /\ th[t].tried = <<>>

\* C14 (amended): as C14, but the address-format error (naming the first
\* string that is not an address) is what the query returns only when a
\* snapshot is pinned and the value parses; otherwise the query is rejected
\* with the no-graph-loaded or the value error.  No flow computation runs in
\* either case.
C14_AddressValidationAfterEarlierChecks ==
    \A t \in Threads :
        Returned(t)
        => LET p == Params_(t)
           IN  /\ validate_and_parse_ethereum_address(FromText(p)).ok
                  <=> WellFormedAddress(FromText(p))
               /\ validate_and_parse_ethereum_address(ToText(p)).ok
                  <=> WellFormedAddress(ToText(p))
               /\ (FromMalformed(p) \/ ToMalformed(p))
                  => /\ ~th[t].res.ok
                     /\ th[t].tried = <<>>
                     /\ th[t].ret.json = EmptyObject
                     /\ IF th[t].version = 0
                        THEN th[t].res.err.kind = NoGraphMsg
                        ELSE IF ~parsed_value_param(p).ok
                        THEN th[t].res.err = parsed_value_param(p).err
                        ELSE /\ th[t].res.err.kind = AddressFormatMsg
                             /\ th[t].res.err.args
                                = <<IF FromMalformed(p) THEN FromText(p) ELSE ToText(p)>>
               /\ (th[t].version # 0 /\ parsed_value_param(p).ok
                   /\ ~FromMalformed(p) /\ ~ToMalformed(p))
                  => th[t].tried # <<>>

\* A query on a loaded graph whose 'to' parameter is missing has been
\* rejected with the address-format error for "null".
C14_Witness ==
    \E t \in Threads :
        /\ Returned(t)
        /\ th[t].version # 0
        /\ PinnedEdges(t) # <<>>
        /\ Params_(t).to.kind = "null"
        /\ ~FromMalformed(Params_(t))
        /\ ~th[t].res.ok
        /\ th[t].res.err.kind = AddressFormatMsg
        /\ th[t].res.err.args = << <<"n", "u", "l", "l">> >>

\* ---- C15 -------------------------------------------------------------
\* The hop bound compute_flow searched under for the result a query returned.
BoundUsed(t) == th[t].tried[Len(th[t].tried)]

\* C15: the 'final' flag of a successful response is true exactly if the hop
\* bound the returned result was computed under is the unbounded one, the
\* last of the query's attempts.
C15_FinalFlag ==
    \A t \in Threads :
        (RanFlow(t) /\ th[t].res.ok)
        => ( th[t].res.val.final
             <=> ( /\ ~BoundUsed(t).some
                   /\ BoundUsed(t) = max_distances(Params_(t))[Len(max_distances(Params_(t)))] ) )

\* An iterative query has returned a result computed under a hop bound, with
\* transfer steps, and it is not marked final.
C15_Witness ==
    \E t \in Threads :
        /\ RanFlow(t)
        /\ th[t].res.ok
        /\ BoundUsed(t).some
        /\ th[t].res.val.transferSteps # <<>>
        /\ ~th[t].res.val.final

\* ---- C16 -------------------------------------------------------------
\* The target value a query supplies: a decimal numeral in a string, or a
\* JSON number.
SuppliesTarget(p) ==
    \/ p.value.kind = "string" /\ PlainNumeral(p.value.s)
    \/ p.value.kind = "number"

SuppliedTarget(p) ==
    IF p.value.kind = "string" THEN DecimalValue(p.value.s) ELSE p.value.n

\* The target compute_flow is called with (line 120).
TargetUsed(t) == parsed_value_param(Params_(t)).v

\* C16: a query with no target value is computed with the maximum value as
\* its target; a query that supplies a target value is computed with that
\* value as its target, so that its maxFlowValue is never above it.
C16_TargetOfQuery ==
    \A t \in Threads :
        RanFlow(t)
        => /\ Params_(t).value.kind = "null" => TargetUsed(t) = U256_MAX
           /\ SuppliesTarget(Params_(t))
              => /\ TargetUsed(t) = SuppliedTarget(Params_(t))
                 /\ th[t].res.ok
                    => DecimalValue(th[t].res.val.maxFlowValue) <= SuppliedTarget(Params_(t))

\* ---- C17 -------------------------------------------------------------
\* The store: the global dispenser, every dispenser's current version and
\* the versions installed.
store == <<EDGE_DB_DISPENSER, dispensers, versions>>

\* t is inside a call of ffi_load_safes_binary whose import fails.
InFailingLoad(t) ==
    /\ th[t].fn = "load"
    /\ th[t].pc \in {"lock", "locked", "ctx", "import"}
    /\ ~import_from_safes_binary(th[t].file).ok

\* C17: a failed load changes nothing.  No step of a call of
\* ffi_load_safes_binary whose import fails changes the store (no update is
\* made: the current snapshot, or the empty state, stays what it was), and
\* when the call returns it returns 0.
C17_FailedLoadChangesNothing ==
    [][ \A t \in Threads :
            (InFailingLoad(t) /\ th'[t] # th[t])
            => /\ store' = store
               /\ th'[t].pc = "idle" => th'[t].ret.n = 0 ]_vars

\* A load of an unreadable file has returned 0 while the store holds a
\* snapshot with edges, installed before it.
C17_Witness ==
    \E t \in Threads :
        /\ th[t].fn = "load"
        /\ th[t].pc = "idle"
        /\ ~import_from_safes_binary(th[t].file).ok
        /\ th[t].ret.n = 0
        /\ EDGE_DB_DISPENSER # 0
        /\ dispensers[EDGE_DB_DISPENSER] # 0
        /\ dispensers[EDGE_DB_DISPENSER] = th[t].version
        /\ versions[th[t].version].edges # <<>>

\* ---- C18 -------------------------------------------------------------
\* Versions are installed in the order their loads return: version v is
\* snapshot S of the v-th successful load, and a version with a higher index
\* was installed by a load that completed later.

\* ffi_initialize has not been called since the load that installed version
\* v returned.
NoInitializeCalledSince(v) == versions[v].inits = Len(dispensers)

\* C18: visibility of a completed load.  When the request context of a query
\* is created after a load has returned successfully for version v, and
\* ffi_initialize has not been called since that return, the context is
\* pinned to v or to a version installed later: not to an older one and not
\* to the empty state.
C18_CompletedLoadVisible ==
    [][ \A t \in Threads :
            (th[t].fn = "compute" /\ th[t].pc = "ctx" /\ th'[t].pc # "ctx")
            => \A v \in 1..Len(versions) :
                   NoInitializeCalledSince(v) => th'[t].version >= v ]_vars

\* ---- C19 -------------------------------------------------------------
\* C19: queries are read-only on the store.  No step of a call of
\* ffi_compute_transfer (its entry, its locking, compute_transfer, its
\* return or its panic) changes the global dispenser, any dispenser's current
\* version or the versions installed, whatever the outcome of the query.
C19_QueriesReadOnly ==
    [][ \A t \in Threads :
            (th'[t].fn = "compute" /\ th'[t] # th[t]) => store' = store ]_vars

\* A query has been rejected with the value-range error while the store
\* holds the snapshot with edges that the query was pinned to.
C19_Witness ==
    \E t \in Threads :
        /\ Returned(t)
        /\ ~th[t].res.ok
        /\ th[t].res.err.kind = ValueRangeMsg
        /\ EDGE_DB_DISPENSER # 0
        /\ dispensers[EDGE_DB_DISPENSER] = th[t].version
        /\ PinnedEdges(t) # <<>>

=============================================================================
